---- MODULE Spec2Model ----
(***************************************************************************)
(* Model of the comment-retrieval pipeline of couldtheybeabot:             *)
(*   src/services/redditService.ts   RedditService (throttle, retry,       *)
(*                                   feed-then-JSON strategy machine)      *)
(*   src/pages/api/reddit-comments.ts  the API handler (validation,        *)
(*                                   15 s race, single response)           *)
(* Time is the millisecond clock Date.now().  Every await of the code is a  *)
(* point where a call is suspended; the model has one action per           *)
(* continuation (the code that runs between two awaits).  Timers fire at    *)
(* their expiry time.                                                       *)
(***************************************************************************)
EXTENDS Integers, Sequences, FiniteSets, TLC

VARIABLES
    now,              \* Date.now(), in ms
    lastRequestTime,  \* RedditService.lastRequestTime, one per service instance
    proc,             \* per call: the state of one handler request or one direct getUserComments call
    ui                \* the state of the RedditUserLookup component in the browser

vars == <<now, lastRequestTime, proc, ui>>

----------------------------------------------------------------------------
(* Program constants *)

requestDelay == 2000
DefaultRetries == 3
BackoffBaseMs == 1000
CooldownMs == 1000
DefaultLimit == 40
TimeoutMs == 15000

(* Bounds of the model *)
MaxParts == 3

MaxEntries == 2                 \* upstream payloads hold at most this many items
Procs == {1, 2}                 \* concurrent calls
Single == {1}                   \* the caller of the one-call specification
Usernames == {"alice", "bob"}
Limits == {1, DefaultLimit}     \* limits of direct getUserComments calls
Latencies == {500, 3000}        \* time a fetch() takes to settle, ms
Statuses == {200, 403, 500}     \* upstream HTTP statuses; 0 stands for a thrown network error
NetworkError == 0

SharedService == <<"shared", 0>>          \* one RedditService used by direct callers
OwnService(p) == <<"request", p>>         \* the instance the handler creates for request p
Instances == {SharedService} \cup {OwnService(p) : p \in Procs}

----------------------------------------------------------------------------
(* JavaScript values and strings.  A string is a sequence of characters.   *)

Undefined == [type |-> "undefined", chars |-> <<>>]
Str(s) == [type |-> "string", chars |-> s]
Num == [type |-> "number", chars |-> <<>>]      \* a non-zero number
Truthy(v) == v.type = "number" \/ (v.type = "string" /\ v.chars # <<>>)

startsWith(s, pre) == Len(s) >= Len(pre) /\ SubSeq(s, 1, Len(pre)) = pre
substring(s, n) == SubSeq(s, n + 1, Len(s))

T1 == <<"t", "1", "_">>
T3 == <<"t", "3", "_">>

RECURSIVE Pow2(_)
Pow2(n) == IF n = 0 THEN 1 ELSE 2 * Pow2(n - 1)

Min(S) == CHOOSE x \in S : \A y \in S : x <= y

RECURSIVE split(_, _)
split(s, sep) ==
    IF \E i \in 1..Len(s) : s[i] = sep
    THEN LET i == Min({j \in 1..Len(s) : s[j] = sep})
         IN  <<SubSeq(s, 1, i - 1)>> \o split(SubSeq(s, i + 1, Len(s)), sep)
    ELSE <<s>>

slice(s, n) == SubSeq(s, 1, IF n < Len(s) THEN n ELSE Len(s))

----------------------------------------------------------------------------
(* Errors, URLs, observed requests, responses *)

Error(kind, status, user, cause) ==
    [kind |-> kind, status |-> status, user |-> user, cause |-> cause]
NoError == Error("none", 0, "", "")
\* new Error(`HTTP error: ${response.status} ...`); a status of NetworkError is fetch() itself rejecting
AttemptError(status) ==
    IF status = NetworkError THEN Error("network", 0, "", "") ELSE Error("http", status, "", "")
\* new Error(`Failed after ${retries} attempts`)
FailedAfter(retries) == Error("failed_after", retries, "", "")
BodyError == Error("body", 0, "", "")
TypeError == Error("type", 0, "", "")
RssParsingError(e) == Error("rss_parsing", 0, "", e.kind)
AllApproachesFailed(user) == Error("all_failed", 0, user, "")
CouldNotFetch(user, e) == Error("could_not_fetch", 0, user, e.kind)
TimedOut == Error("timed_out", 0, "", "")

rssUrl(username) == [host |-> "www.reddit.com", user |-> username, limit |-> 0]
jsonUrl(username, limit) == [host |-> "old.reddit.com", user |-> username, limit |-> limit]
NoUrl == [host |-> "", user |-> "", limit |-> 0]

\* one outbound fetch(), as seen on the wire
NoRequest ==
    [call |-> 0, strategy |-> "none", attempt |-> 0, url |-> NoUrl,
     start |-> 0, end |-> 0, done |-> FALSE, status |-> 0]

Response(status, error, message, comments, headers, at) ==
    [status |-> status, error |-> error, message |-> message,
     comments |-> comments, headers |-> headers, at |-> at]

----------------------------------------------------------------------------
(* String functions of the normalizers.  The elements of a string are its   *)
(* characters; a run of characters that no pattern of the code looks into   *)
(* may stand as one element ("unknown", "news").                            *)

RECURSIVE replaceFirst(_, _, _)
replaceFirst(s, pat, rep) ==
    IF Len(s) < Len(pat) THEN s
    ELSE IF SubSeq(s, 1, Len(pat)) = pat THEN rep \o SubSeq(s, Len(pat) + 1, Len(s))
    ELSE <<Head(s)>> \o replaceFirst(Tail(s), pat, rep)

RECURSIVE replaceAll(_, _, _)
replaceAll(s, pat, rep) ==
    IF Len(s) < Len(pat) THEN s
    ELSE IF SubSeq(s, 1, Len(pat)) = pat
         THEN rep \o replaceAll(SubSeq(s, Len(pat) + 1, Len(s)), pat, rep)
    ELSE <<Head(s)>> \o replaceAll(Tail(s), pat, rep)

IsSpace(c) == c \in {" ", "\n"}

\* the index of the first element of s at or after i that satisfies Is, or 0
firstAt(s, i, Is(_)) ==
    IF \E j \in i..Len(s) : Is(s[j]) THEN Min({j \in i..Len(s) : Is(s[j])}) ELSE 0

\* .replace(/<br\s*\/?>/g, '\n')
RECURSIVE replaceBr(_)
replaceBr(s) ==
    IF s = <<>> THEN <<>>
    ELSE IF Len(s) >= 4 /\ SubSeq(s, 1, 3) = <<"<", "b", "r">>
         THEN LET k == firstAt(s, 4, LAMBDA c : ~IsSpace(c))
                  e == IF k = 0 THEN 0
                       ELSE IF s[k] = ">" THEN k
                       ELSE IF s[k] = "/" /\ k < Len(s) /\ s[k + 1] = ">" THEN k + 1
                       ELSE 0
              IN  IF e = 0 THEN <<Head(s)>> \o replaceBr(Tail(s))
                  ELSE <<"\n">> \o replaceBr(SubSeq(s, e + 1, Len(s)))
    ELSE <<Head(s)>> \o replaceBr(Tail(s))

\* .replace(/<[^>]*>/g, ' ')
RECURSIVE replaceTags(_)
replaceTags(s) ==
    IF s = <<>> THEN <<>>
    ELSE IF Head(s) = "<" /\ firstAt(s, 2, LAMBDA c : c = ">") # 0
         THEN <<" ">> \o replaceTags(SubSeq(s, firstAt(s, 2, LAMBDA c : c = ">") + 1, Len(s)))
    ELSE <<Head(s)>> \o replaceTags(Tail(s))

\* .replace(/\s+/g, ' ')
RECURSIVE collapseSpace(_)
collapseSpace(s) ==
    IF s = <<>> THEN <<>>
    ELSE IF IsSpace(Head(s))
         THEN LET k == firstAt(s, 1, LAMBDA c : ~IsSpace(c))
              IN  <<" ">> \o (IF k = 0 THEN <<>> ELSE collapseSpace(SubSeq(s, k, Len(s))))
    ELSE <<Head(s)>> \o collapseSpace(Tail(s))

trim(s) ==
    LET a == firstAt(s, 1, LAMBDA c : ~IsSpace(c))
    IN  IF a = 0 THEN <<>>
        ELSE SubSeq(s, a, CHOOSE z \in a..Len(s) :
                              ~IsSpace(s[z]) /\ \A y \in (z + 1)..Len(s) : IsSpace(s[y]))

\* the wrapper of the feed's content, each marker one element of the input
SC_OFF == "<!-- SC_OFF --><div class=\"md\">"
SC_ON == "</div><!-- SC_ON -->"
\* the characters of a marker, as the tag patterns see them
markerChars(c) ==
    IF c = SC_OFF THEN <<"<", "!-- SC_OFF --", ">", "<", "div class=\"md\"", ">">>
    ELSE IF c = SC_ON THEN <<"<", "/div", ">", "<", "!-- SC_ON --", ">">>
    ELSE <<c>>
RECURSIVE spell(_)
spell(s) == IF s = <<>> THEN <<>> ELSE markerChars(Head(s)) \o spell(Tail(s))

\* html.match(/<!-- SC_OFF --><div class="md">([\s\S]*?)<\/div><!-- SC_ON -->/)
contentMatch(html) ==
    LET a == firstAt(html, 1, LAMBDA c : c = SC_OFF)
        z == IF a = 0 THEN 0 ELSE firstAt(html, a + 1, LAMBDA c : c = SC_ON)
    IN  IF z = 0 THEN spell(html) ELSE spell(SubSeq(html, a + 1, z - 1))

Entity(name) == <<"&", name, ";">>

\* a cleaner that collapses and trims whitespace before it decodes the entities
cleanHtmlContent_CollapsesFirst(html) ==
    LET t1 == replaceAll(contentMatch(html), <<"<", "p", ">">>, <<"\n", "\n">>)
        t2 == replaceAll(t1, <<"<", "/", "p", ">">>, <<>>)
        t3 == trim(collapseSpace(replaceTags(replaceBr(t2))))
        e1 == replaceAll(t3, Entity("quot"), <<"\"">>)
        e2 == replaceAll(e1, Entity("apos"), <<"'">>)
        e3 == replaceAll(e2, Entity("lt"), <<"<">>)
        e4 == replaceAll(e3, Entity("gt"), <<">">>)
        e5 == replaceAll(e4, Entity("amp"), <<"&">>)
        e6 == replaceAll(e5, Entity("nbsp"), <<" ">>)
        e7 == replaceAll(e6, Entity("#39"), <<"'">>)
    IN  replaceAll(e7, Entity("#x200B"), <<>>)

\* cleanHtmlContent 280-315, for a non-empty string
cleanHtmlContent(html) ==
    LET t1 == replaceAll(contentMatch(html), <<"<", "p", ">">>, <<"\n", "\n">>)
        t2 == replaceAll(t1, <<"<", "/", "p", ">">>, <<>>)
        t3 == replaceTags(replaceBr(t2))
        e1 == replaceAll(t3, Entity("quot"), <<"\"">>)
        e2 == replaceAll(e1, Entity("apos"), <<"'">>)
        e3 == replaceAll(e2, Entity("lt"), <<"<">>)
        e4 == replaceAll(e3, Entity("gt"), <<">">>)
        e5 == replaceAll(e4, Entity("amp"), <<"&">>)
        e6 == replaceAll(e5, Entity("nbsp"), <<" ">>)
        e7 == replaceAll(e6, Entity("#39"), <<"'">>)
        e8 == replaceAll(e7, Entity("#x200B"), <<>>)
    IN  trim(collapseSpace(e8))

----------------------------------------------------------------------------
(* Upstream payloads, as the XML parser and response.json() hand them over  *)

\* a number of seconds (kept as its milliseconds), NaN, or a value of another type
Time(ms) == [type |-> "number", chars |-> <<>>, ms |-> ms]
NaN == [type |-> "NaN", chars |-> <<>>, ms |-> 0]
Raw(v) == [type |-> v.type, chars |-> v.chars, ms |-> 0]

\* new Date(s).getTime() / 1000: NaN for a string that is no date
Date1 == <<"1970-01-01T00:00:01Z">>
Date2 == <<"1970-01-01T00:00:02Z">>
dateValue(chars) ==
    IF chars = Date1 THEN Time(1000) ELSE IF chars = Date2 THEN Time(2000) ELSE NaN

\* entry.category: absent, text, one element with attributes, or a list of them
NoCategory == [type |-> "undefined", labels |-> <<>>]
Category(label) == [type |-> "object", labels |-> <<label>>]
Categories(labels) == [type |-> "array", labels |-> labels]
TextCategory == [type |-> "string", labels |-> <<>>]

\* entry.content: absent, text, a number, or an element with a type attribute and text
NoContent == [kind |-> "undefined", attr |-> "", text |-> Undefined]
TextContent(chars) == [kind |-> "string", attr |-> "", text |-> Str(chars)]
NumberContent == [kind |-> "number", attr |-> "", text |-> Num]
ElementContent(attr, text) == [kind |-> "object", attr |-> attr, text |-> text]

Entry(category, id, href, updated, content) ==
    [category |-> category, id |-> id, href |-> href, updated |-> updated,
     content |-> content,
     title |-> Undefined,
     rnd |-> <<"k3j9x0a">>]     \* what Math.random().toString(36).substring(2, 9) gives for it

Hello == <<"h", "i">>
PlainEntry == Entry(NoCategory, Undefined, Undefined, Undefined, TextContent(Hello))
\* <content type="html">123</content>: the parser hands the text over as a number
BadEntry == Entry(NoCategory, Undefined, Undefined, Undefined, ElementContent("html", Num))

Permalinks ==
    { <<"p", "/", "x", "/", "c">>, <<"p", "/", "x", "/", "c", "/">>, <<"x", "/", "c">>, <<"c">> }
LinkedEntry(l) == [PlainEntry EXCEPT !.href = Str(l)]
FeedEntries == { PlainEntry, BadEntry, LinkedEntry(<<"p", "/", "x", "/", "c">>) }
\* result.feed.entry is a list, or the entry itself when the feed has one entry
NoFeedBody == [kind |-> "none", list |-> FALSE, entries |-> <<>>]
FeedOf(entries) == [kind |-> "feed", list |-> TRUE, entries |-> entries]
FeedOfOne(entry) == [kind |-> "feed", list |-> FALSE, entries |-> <<entry>>]
FeedsOver(Entries) ==
    { FeedOf(es) : es \in UNION { [1..n -> Entries] : n \in 1..MaxEntries } }
    \cup { FeedOfOne(e) : e \in Entries }
FeedBodies ==
    { [NoFeedBody EXCEPT !.kind = k] : k \in {"unreadable", "unparseable", "no_shape"} }
    \cup FeedsOver(FeedEntries)

Child(data, id, body, subreddit, parent_id, link_id, created_utc) ==
    [data |-> data, id |-> id, body |-> body, subreddit |-> subreddit,
     parent_id |-> parent_id, link_id |-> link_id, created_utc |-> created_utc,
     rnd |-> <<"k3j9x0a">>]
NoData == Child(FALSE, Undefined, Undefined, Undefined, Undefined, Undefined, Raw(Undefined))

ParentIds == { Undefined, Num, Str(T3 \o <<"a">>), Str(T1 \o <<"b">>), Str(<<"z">>) }
ChildOf(parent_id) == [NoData EXCEPT !.data = TRUE, !.parent_id = parent_id]
JsonChildren == { NoData, ChildOf(Undefined), ChildOf(Num), ChildOf(Str(T3 \o <<"a">>)) }
NoJsonBody == [kind |-> "none", children |-> <<>>]
Listing(children) == [kind |-> "listing", children |-> children]
ListingsOver(Children) ==
    { Listing(cs) : cs \in UNION { [1..n -> Children] : n \in 0..MaxEntries } }
JsonBodies ==
    { [NoJsonBody EXCEPT !.kind = k] : k \in {"unreadable", "no_shape"} }
    \cup ListingsOver(JsonChildren)

----------------------------------------------------------------------------
(* Normalizers *)

Comment(id, body, subreddit, parent_id, link_id, link_title, parent_body, created_utc) ==
    [id |-> id, body |-> body, subreddit |-> subreddit, parent_id |-> parent_id,
     link_id |-> link_id, link_title |-> link_title, parent_body |-> parent_body,
     created_utc |-> created_utc]

Unknown == <<"unknown">>
NoContentText == <<"[No content]">>
randomId(rnd) == <<"i", "d", "_">> \o rnd
Or(v, d) == IF Truthy(v) THEN v ELSE d

\* fetchFromRSS 185-200
feedSubreddit(entry) ==
    LET category == entry.category
        fromLabel(label) ==
            IF label.type = "string" /\ replaceFirst(label.chars, <<"r", "/">>, <<>>) # <<>>
            THEN replaceFirst(label.chars, <<"r", "/">>, <<>>)
            ELSE Unknown
    IN  IF category.type = "undefined" THEN Unknown
        ELSE IF category.type \in {"object", "array"}          \* typeof entry.category === 'object'
        THEN fromLabel(IF category.type = "object" THEN category.labels[1] ELSE Undefined)
        ELSE IF category.type = "array"                         \* Array.isArray(entry.category)
        THEN LET found == SelectSeq(category.labels,
                              LAMBDA l : Truthy(l) /\ startsWith(l.chars, <<"r", "/">>))
             IN  IF found # <<>> THEN replaceFirst(found[1].chars, <<"r", "/">>, <<>>) ELSE Unknown
        ELSE Unknown

\* fetchFromRSS 203-205
feedId(entry) ==
    IF Truthy(entry.id) /\ entry.id.type = "string"
    THEN LET parts == split(entry.id.chars, ":")
         IN  IF parts[Len(parts)] # <<>> THEN parts[Len(parts)] ELSE entry.id.chars
    ELSE randomId(entry.rnd)

\* entry.title.match(/\/u\/[^/]+\s+on\s+(.+)$/): the matches of the pattern in s
\* as <<i, j, m>>: "/u/" at i, the whitespace before "on" at j, the group at m
titleMatches(s) ==
    { x \in (1..Len(s)) \X (1..Len(s)) \X (1..Len(s)) :
        LET i == x[1]
            j == x[2]
            m == x[3]
            k == firstAt(s, j, LAMBDA c : ~IsSpace(c))
        IN  /\ i + 3 < j /\ SubSeq(s, i, i + 2) = <<"/", "u", "/">>
            /\ \A y \in (i + 3)..(j - 1) : s[y] # "/"
            /\ IsSpace(s[j])
            /\ k # 0 /\ k + 2 < m /\ s[k] = "o" /\ s[k + 1] = "n"
            /\ \A y \in (k + 2)..(m - 1) : IsSpace(s[y])
            /\ \A y \in m..Len(s) : s[y] # "\n" }

\* fetchFromRSS 207-215: the leftmost match, its quantifiers taking all they can
feedLinkTitle(entry) ==
    IF ~(Truthy(entry.title) /\ entry.title.type = "string") \/ titleMatches(entry.title.chars) = {}
    THEN <<>>
    ELSE LET s == entry.title.chars
             all == titleMatches(s)
             i == Min({x[1] : x \in all})
             j == CHOOSE y \in {x[2] : x \in {z \in all : z[1] = i}} :
                      \A x \in all : x[1] = i => x[2] <= y
             m == CHOOSE y \in {x[3] : x \in {z \in all : z[1] = i /\ z[2] = j}} :
                      \A x \in all : (x[1] = i /\ x[2] = j) => x[3] <= y
         IN  trim(SubSeq(s, m, Len(s)))

\* fetchFromRSS 226-232
feedParentId(entry) ==
    IF ~Truthy(entry.href) THEN <<>>
    ELSE LET linkParts == split(entry.href.chars, "/")
             lastPart == linkParts[Len(linkParts)]
         IN  IF Len(linkParts) >= 2 /\ lastPart # <<>> THEN T1 \o lastPart ELSE <<>>

\* fetchFromRSS 226-237
feedLinkId(entry) ==
    IF ~Truthy(entry.href) THEN <<>>
    ELSE LET linkParts == split(entry.href.chars, "/")
             lastPart == linkParts[Len(linkParts)]
         IN  IF Len(linkParts) >= 2 /\ lastPart # <<>>
                /\ Len(linkParts) >= 3 /\ linkParts[Len(linkParts) - 2] # <<>>
             THEN T3 \o linkParts[Len(linkParts) - 2]
             ELSE <<>>

\* fetchFromRSS 243-250 at time t: new Date() does not throw
feedCreatedUtc(entry, t) ==
    IF Truthy(entry.updated) /\ entry.updated.type = "string"
    THEN dateValue(entry.updated.chars)
    ELSE Time(t)

\* extractContentFromEntry 321-358, for an entry whose extraction does not throw
extractContentFromEntry(entry) ==
    LET content == entry.content IN
    IF content.kind = "undefined" \/ (content.kind = "string" /\ content.text.chars = <<>>)
    THEN NoContentText
    ELSE IF content.kind = "object"
    THEN IF Truthy(content.text) THEN cleanHtmlContent(content.text.chars)
         ELSE <<"[Content format not recognized]">>
    ELSE IF content.kind = "string" THEN cleanHtmlContent(content.text.chars)
    ELSE <<"[Unknown content format]">>

\* the body of the entries.map callback throws: permalink.split on a value that
\* is no string, or html.match in cleanHtmlContent on a text that is a number
entryThrows(entry) ==
    \/ Truthy(entry.href) /\ entry.href.type # "string"
    \/ entry.content.kind = "object" /\ Truthy(entry.content.text)
       /\ entry.content.text.type # "string"

\* fetchFromRSS 252-261 at time t
feedComment(entry, t) ==
    Comment(Str(feedId(entry)), Str(extractContentFromEntry(entry)), Str(feedSubreddit(entry)),
            Str(feedParentId(entry)), Str(feedLinkId(entry)), Str(feedLinkTitle(entry)), Undefined,
            feedCreatedUtc(entry, t))

\* fetchFromRSS 178: Array.isArray(result.feed.entry) ? result.feed.entry : [result.feed.entry]
entriesOf(body) == IF body.list THEN body.entries ELSE <<body.entries[1]>>

\* a map that gives up at the first entry whose extraction throws
feedComments_StopsAtThrow(entries, limit, t) ==
    LET first == slice(entries, limit)
        k == firstAt(first, 1, entryThrows)
        kept == IF k = 0 THEN first ELSE SubSeq(first, 1, k - 1)
    IN  [i \in 1..Len(kept) |-> feedComment(kept[i], t)]

\* entries.slice(0, limit).map(...).filter(Boolean)
feedComments(entries, limit, t) ==
    LET kept == SelectSeq(slice(entries, limit), LAMBDA e : ~entryThrows(e))
    IN  [i \in 1..Len(kept) |-> feedComment(kept[i], t)]

\* tryMultipleApproaches 391-398 at time t
jsonComment(child, t) ==
    Comment(Or(child.id, Str(randomId(child.rnd))), Or(child.body, Str(NoContentText)),
            Or(child.subreddit, Str(Unknown)), Or(child.parent_id, Str(<<>>)),
            Or(child.link_id, Str(<<>>)), Undefined, Undefined,
            Or(child.created_utc, Time(t)))

\* data.data.children.filter(child => child && child.data).map(...)
jsonComments(children, t) ==
    LET kept == SelectSeq(children, LAMBDA c : c.data)
    IN  [i \in 1..Len(kept) |-> jsonComment(kept[i], t)]

\* the comments.map callback of getUserComments: startsWith on a value that is no string
enhanceThrows(comment) ==
    Truthy(comment.parent_id) /\ comment.parent_id.type # "string"

\* a post-pass that takes a post-kind parent for a comment-kind parent
enhance_PostAsComment(comment) ==
    IF Truthy(comment.parent_id)
       /\ (startsWith(comment.parent_id.chars, T3) \/ startsWith(comment.parent_id.chars, T1))
    THEN [comment EXCEPT !.parent_body =
             Str(<<"Comment: ">> \o substring(comment.parent_id.chars, 3))]
    ELSE comment

\* getUserComments 417-425
enhance(comment) ==
    IF Truthy(comment.parent_id) /\ startsWith(comment.parent_id.chars, T3)
    THEN [comment EXCEPT !.link_title =
             IF Truthy(comment.link_title) THEN comment.link_title
             ELSE Str(<<"Post: ">> \o substring(comment.parent_id.chars, 3))]
    ELSE IF Truthy(comment.parent_id) /\ startsWith(comment.parent_id.chars, T1)
    THEN [comment EXCEPT !.parent_body =
             Str(<<"Comment: ">> \o substring(comment.parent_id.chars, 3))]
    ELSE comment

----------------------------------------------------------------------------
(* The state of one call *)

SMaxAge == 300
StaleWhileRevalidate == 60
NoHeaders == [cors |-> FALSE, sMaxage |-> 0, staleWhileRevalidate |-> 0]
SentHeaders == [cors |-> TRUE, sMaxage |-> SMaxAge, staleWhileRevalidate |-> StaleWhileRevalidate]
NoComments == [present |-> FALSE, list |-> <<>>]
Comments(cs) == [present |-> TRUE, list |-> cs]

Methods == {"GET", "POST"}
QueryUsernames ==
    { [type |-> "undefined", val |-> ""], [type |-> "array", val |-> ""] }
    \cup { [type |-> "string", val |-> u] : u \in Usernames \cup {""} }

IdleProc ==
    [kind |-> "none",            \* "handler": an API request; "direct": a getUserComments call on the shared service
     method |-> "", query |-> [type |-> "undefined", val |-> ""],   \* req.method, req.query.username
     svc |-> SharedService,      \* the RedditService instance the call runs on
     username |-> "", limit |-> 0,
     pc |-> "idle",              \* the await the call is suspended at
     strategy |-> "none", url |-> NoUrl, attempt |-> 0,
     wake |-> 0,                 \* when the pending sleep or fetch settles
     lookup |-> "none", comments |-> <<>>, error |-> NoError,   \* the promise of getUserComments
     settledAt |-> 0,
     timerArmed |-> FALSE, timerAt |-> 0,                       \* the handler's setTimeout
     awaiting |-> FALSE,         \* the handler is suspended at await Promise.race
     headers |-> NoHeaders, responses |-> <<>>,
     \* what the call did, as its log and the wire show it
     calls |-> 0,                \* invocations of browserLikeFetch
     entered |-> <<>>,           \* strategies entered: "Trying ... approach" log lines
     failed |-> <<>>,            \* strategies failed: "... approach failed:" log lines
     requests |-> 0,             \* outbound fetch() calls made
     cur |-> NoRequest, prev |-> NoRequest,   \* the last two outbound requests
     feedBody |-> NoFeedBody, jsonBody |-> NoJsonBody]   \* the 2xx answers received

Waiting(r) == r.pc \in {"throttle", "fetching", "backoff", "cooldown"}
Due(p) == Waiting(proc[p]) /\ proc[p].wake = now

\* res.status(..).json(..)
respond(r, resp) == [r EXCEPT !.awaiting = FALSE, !.responses = Append(@, resp)]

\* reddit-comments.ts 33-49: the continuation of await Promise.race once the race settles
raceSettles(r, state, comments, error) ==
    IF state = "fulfilled"
    THEN respond(r, Response(200, "", NoError, Comments(comments), r.headers, now))
    ELSE respond(r, Response(500, "Failed to fetch Reddit data", error, Comments(<<>>), r.headers, now))

\* a settlement that answers the request whether or not the race is already decided
settle_AnswersAgain(r, state, comments, error) ==
    LET r1 == [r EXCEPT !.pc = "done", !.lookup = state, !.comments = comments, !.error = error,
                        !.settledAt = now]
    IN  IF r.kind = "handler" THEN raceSettles(r1, state, comments, error) ELSE r1

\* the promise of getUserComments settles; a handler still suspended at the race resumes
settle(r, state, comments, error) ==
    LET r1 == [r EXCEPT !.pc = "done", !.lookup = state, !.comments = comments, !.error = error,
                        !.settledAt = now]
    IN  IF r.kind = "handler" /\ r.awaiting THEN raceSettles(r1, state, comments, error) ELSE r1

\* getUserComments 413-432, once tryMultipleApproaches has returned cs
getUserCommentsReturns(r, cs) ==
    IF \E i \in 1..Len(cs) : enhanceThrows(cs[i])
    THEN settle(r, "rejected", <<>>, CouldNotFetch(r.username, TypeError))
    ELSE settle(r, "fulfilled", [i \in 1..Len(cs) |-> enhance(cs[i])], NoError)

\* a fallback that starts without the cooldown
rssFailed_NoCooldown(r, e) ==
    [r EXCEPT !.failed = Append(@, [strategy |-> "feed", at |-> now, error |-> e]),
              !.pc = "cooldown", !.wake = now]

\* tryMultipleApproaches 368-372: the feed strategy threw e
rssFailed(r, e) ==
    [r EXCEPT !.failed = Append(@, [strategy |-> "feed", at |-> now, error |-> e]),
              !.pc = "cooldown", !.wake = now + CooldownMs]

\* tryMultipleApproaches 399-402 and getUserComments 429-432: the JSON strategy threw e
jsonFailed(r, e) ==
    settle([r EXCEPT !.failed = Append(@, [strategy |-> "json", at |-> now, error |-> e])],
           "rejected", <<>>, CouldNotFetch(r.username, AllApproachesFailed(r.username)))

\* a strategy machine that falls back again after the JSON strategy
strategyFailed_FallsBackAgain(r, e) == rssFailed(r, e)

strategyFailed(r, e) == IF r.strategy = "feed" THEN rssFailed(r, e) ELSE jsonFailed(r, e)

\* browserLikeFetch 119: fetch(url, {headers}) goes out
startFetch(r, a, lat) ==
    [r EXCEPT !.pc = "fetching", !.attempt = a, !.wake = now + lat,
              !.requests = @ + 1, !.prev = r.cur,
              !.cur = [call |-> r.calls, strategy |-> r.strategy, attempt |-> a, url |-> r.url,
                       start |-> now, end |-> 0, done |-> FALSE, status |-> 0]]

\* browserLikeFetch 119-122: the fetch settled (status NetworkError: it rejected)
received(r, status) == [r EXCEPT !.cur.end = now, !.cur.done = TRUE, !.cur.status = status]

\* browserLikeFetch 116 and 148: the loop test, then the attempt or the throw after the loop
attemptLoop(r, a, lat) ==
    IF a < DefaultRetries THEN startFetch(r, a, lat)
    ELSE strategyFailed(r, FailedAfter(DefaultRetries))

\* a retry loop that retries at once, without backoff
attemptFailed_NoBackoff(r, e) ==
    IF r.attempt < DefaultRetries - 1
    THEN [r EXCEPT !.pc = "backoff", !.wake = now]
    ELSE strategyFailed(r, e)

\* a retry loop that waits after the final attempt as well
attemptFailed_WaitsAfterLast(r, e) ==
    IF r.attempt < DefaultRetries
    THEN [r EXCEPT !.pc = "backoff", !.wake = now + Pow2(r.attempt) * BackoffBaseMs]
    ELSE strategyFailed(r, e)

\* browserLikeFetch 134-145: attempt r.attempt threw e
attemptFailed(r, e) ==
    IF r.attempt < DefaultRetries - 1
    THEN [r EXCEPT !.pc = "backoff", !.wake = now + Pow2(r.attempt) * BackoffBaseMs]
    ELSE strategyFailed(r, e)

\* browserLikeFetch 88-119, up to its first await
browserLikeFetch(p, r, strategy, url, lat) ==
    LET r1 == [r EXCEPT !.strategy = strategy, !.url = url, !.calls = @ + 1,
                        !.entered = Append(@, [strategy |-> strategy, at |-> now])]
        timeSinceLastRequest == now - lastRequestTime[r.svc]
    IN  IF timeSinceLastRequest < requestDelay
        THEN /\ proc' = [proc EXCEPT ![p] =
                    [r1 EXCEPT !.pc = "throttle",
                               !.wake = now + (requestDelay - timeSinceLastRequest)]]
             /\ UNCHANGED lastRequestTime
        ELSE /\ lastRequestTime' = [lastRequestTime EXCEPT ![r.svc] = now]
             /\ proc' = [proc EXCEPT ![p] = attemptLoop(r1, 0, lat)]

----------------------------------------------------------------------------
(* The RedditUserLookup component and the client function fetchRedditComments *)

\* what the user may have typed into the input
TypedUsernames == {"", " ", "alice", "bob"}
\* username.trim() is empty
Blank(username) == username \in {"", " "}

\* the useState values of the component, and where analyzeUser is suspended
InitialUi ==
    [username |-> "", isLoading |-> FALSE, result |-> FALSE, error |-> "",
     comments |-> <<>>, isLoadingComments |-> FALSE, commentError |-> "",
     showingMockData |-> FALSE,
     pc |-> "idle",              \* "fetching": at await fetch(...); "analysing": at the 1500 ms delay
     submitted |-> "",           \* the username of the render analyzeUser was called in
     answer |-> [kind |-> "none", ok |-> FALSE, status |-> 0, comments |-> NoComments]]

\* what fetch('/api/reddit-comments?username=...') may settle with: a rejection,
\* an error answer of the handler, or a 200 answer with or without a comments list
Answer(kind, status, comments) ==
    [kind |-> kind, ok |-> (kind = "response" /\ status = 200), status |-> status, comments |-> comments]
ApiRecords ==
    { enhance(jsonComment(ChildOf(Str(T3 \o <<"a">>)), 0)), enhance(jsonComment(ChildOf(Str(T1 \o <<"b">>)), 0)) }
ApiAnswers ==
    { Answer("rejected", 0, NoComments), Answer("response", 200, NoComments) }
    \cup { Answer("response", st, Comments(<<>>)) : st \in {400, 405, 500} }
    \cup { Answer("response", 200, Comments(cs)) :
             cs \in UNION { [1..n -> ApiRecords] : n \in 0..MaxEntries } }

MockCount == 5
\* the decimal digit of n, as a template literal prints it
Digit(n) == <<"0", "1", "2", "3", "4", "5", "6", "7", "8", "9">>[n + 1]
MockSpacingMs == 3600000
\* getMockComments 87-98
getMockComments(username) ==
    [k \in 1..MockCount |->
        Comment(Str(<<"mock_", Digit(k - 1)>>),
                Str(<<"This is a sample comment for u/", username,
                      ". Reddit API data could not be fetched at this time.">>),
                Str(<<"SampleSubreddit">>), Str(<<"t3_mock123">>), Str(<<"t3_mock123">>),
                Str(<<"Sample Post Title">>), Undefined, Time(now - (k - 1) * MockSpacingMs))]

\* fetchRedditComments 445-463: it throws, or returns data.comments || []
fetchRedditCommentsThrows(answer) == ~answer.ok
fetchRedditCommentsReturns(answer) == IF answer.comments.present THEN answer.comments.list ELSE <<>>

\* a continuation that shows whatever list the API returned
fetchUserCommentsResumes_ShowsEmpty(u, answer) ==
    LET u1 == [u EXCEPT !.answer = answer, !.pc = "analysing", !.isLoadingComments = FALSE]
    IN  IF ~fetchRedditCommentsThrows(answer)
        THEN [u1 EXCEPT !.comments = fetchRedditCommentsReturns(answer)]
        ELSE [u1 EXCEPT !.comments = getMockComments(u.submitted), !.showingMockData = TRUE]

\* fetchUserComments 108-135, from the await of fetchRedditComments to the finally
\* block, and analyzeUser up to its delay
fetchUserCommentsResumes(u, answer) ==
    LET u1 == [u EXCEPT !.answer = answer, !.pc = "analysing", !.isLoadingComments = FALSE]
    IN  IF ~fetchRedditCommentsThrows(answer) /\ Len(fetchRedditCommentsReturns(answer)) > 0
        THEN [u1 EXCEPT !.comments = fetchRedditCommentsReturns(answer)]
        ELSE [u1 EXCEPT !.comments = getMockComments(u.submitted), !.showingMockData = TRUE]

----------------------------------------------------------------------------
(* Actions *)

Init ==
    /\ now = requestDelay      \* Date.now() is far past the epoch: the first call never waits
    /\ lastRequestTime = [i \in Instances |-> 0]
    /\ proc = [p \in Procs |-> IdleProc]
    /\ ui = InitialUi

\* getUserComments(username, limit) called on the shared service, up to its first await
GetUserComments(p, username, limit, lat) ==
    /\ proc[p].kind = "none"
    /\ browserLikeFetch(p, [IdleProc EXCEPT !.kind = "direct", !.svc = SharedService,
                                            !.username = username, !.limit = limit,
                                            !.lookup = "pending"],
                        "feed", rssUrl(username), lat)
    /\ UNCHANGED <<now, ui>>

\* a handler that validates the username before it looks at the method
Handler_UsernameFirst(p, method, username, lat) ==
    /\ proc[p].kind = "none"
    /\ LET r == [IdleProc EXCEPT !.kind = "handler", !.svc = OwnService(p),
                                 !.method = method, !.query = username]
       IN  IF username.type # "string" \/ username.val = ""
           THEN /\ proc' = [proc EXCEPT ![p] =
                       [respond(r, Response(400, "Invalid username parameter", NoError, NoComments, r.headers, now))
                            EXCEPT !.pc = "done"]]
                /\ UNCHANGED lastRequestTime
           ELSE IF method # "GET"
           THEN /\ proc' = [proc EXCEPT ![p] =
                       [respond(r, Response(405, "Method not allowed", NoError, NoComments, r.headers, now))
                            EXCEPT !.pc = "done"]]
                /\ UNCHANGED lastRequestTime
           ELSE browserLikeFetch(p, [r EXCEPT !.headers = SentHeaders,
                                              !.timerArmed = TRUE, !.timerAt = now + TimeoutMs,
                                              !.awaiting = TRUE,
                                              !.username = username.val, !.limit = DefaultLimit,
                                              !.lookup = "pending"],
                                 "feed", rssUrl(username.val), lat)
    /\ UNCHANGED <<now, ui>>

\* a handler that arms its timer before it validates the request
Handler_TimerFirst(p, method, username, lat) ==
    /\ proc[p].kind = "none"
    /\ LET r == [IdleProc EXCEPT !.kind = "handler", !.svc = OwnService(p),
                                 !.method = method, !.query = username,
                                 !.timerArmed = TRUE, !.timerAt = now + TimeoutMs]
       IN  IF method # "GET"
           THEN /\ proc' = [proc EXCEPT ![p] =
                       [respond(r, Response(405, "Method not allowed", NoError, NoComments, r.headers, now))
                            EXCEPT !.pc = "done"]]
                /\ UNCHANGED lastRequestTime
           ELSE IF username.type # "string" \/ username.val = ""
           THEN /\ proc' = [proc EXCEPT ![p] =
                       [respond(r, Response(400, "Invalid username parameter", NoError, NoComments, r.headers, now))
                            EXCEPT !.pc = "done"]]
                /\ UNCHANGED lastRequestTime
           ELSE browserLikeFetch(p, [r EXCEPT !.headers = SentHeaders,
                                              !.awaiting = TRUE,
                                              !.username = username.val, !.limit = DefaultLimit,
                                              !.lookup = "pending"],
                                 "feed", rssUrl(username.val), lat)
    /\ UNCHANGED <<now, ui>>

\* handler(req, res), up to its first await
Handler(p, method, username, lat) ==
    /\ proc[p].kind = "none"
    /\ LET r == [IdleProc EXCEPT !.kind = "handler", !.svc = OwnService(p),
                                 !.method = method, !.query = username]
       IN  IF method # "GET"
           THEN /\ proc' = [proc EXCEPT ![p] =
                       [respond(r, Response(405, "Method not allowed", NoError, NoComments, r.headers, now))
                            EXCEPT !.pc = "done"]]
                /\ UNCHANGED lastRequestTime
           ELSE IF username.type # "string" \/ username.val = ""
           THEN /\ proc' = [proc EXCEPT ![p] =
                       [respond(r, Response(400, "Invalid username parameter", NoError, NoComments, r.headers, now))
                            EXCEPT !.pc = "done"]]
                /\ UNCHANGED lastRequestTime
           ELSE browserLikeFetch(p, [r EXCEPT !.headers = SentHeaders,
                                              !.timerArmed = TRUE, !.timerAt = now + TimeoutMs,
                                              !.awaiting = TRUE,
                                              !.username = username.val, !.limit = DefaultLimit,
                                              !.lookup = "pending"],
                                 "feed", rssUrl(username.val), lat)
    /\ UNCHANGED <<now, ui>>

\* browserLikeFetch 92-94: the throttle sleep is over
ThrottleWake(p, lat) ==
    /\ proc[p].pc = "throttle" /\ Due(p)
    /\ lastRequestTime' = [lastRequestTime EXCEPT ![proc[p].svc] = now]
    /\ proc' = [proc EXCEPT ![p] = attemptLoop(proc[p], 0, lat)]
    /\ UNCHANGED <<now, ui>>

\* a retry loop that takes a 2xx answer for a failure as well
FetchFails_AnyStatus(p, status) ==
    /\ proc[p].pc = "fetching" /\ Due(p)
    /\ proc' = [proc EXCEPT ![p] =
           attemptFailed(received(proc[p], status), AttemptError(status))]
    /\ UNCHANGED <<now, lastRequestTime, ui>>

\* browserLikeFetch 119-145: the fetch rejected or answered with a non-2xx status
FetchFails(p, status) ==
    /\ proc[p].pc = "fetching" /\ Due(p)
    /\ status # 200
    /\ proc' = [proc EXCEPT ![p] =
           attemptFailed(received(proc[p], status), AttemptError(status))]
    /\ UNCHANGED <<now, lastRequestTime, ui>>

\* a retry that writes the last-request time as the first attempt does
BackoffWake_WritesTime(p, lat) ==
    /\ proc[p].pc = "backoff" /\ Due(p)
    /\ proc' = [proc EXCEPT ![p] = attemptLoop(proc[p], proc[p].attempt + 1, lat)]
    /\ lastRequestTime' = [lastRequestTime EXCEPT ![proc[p].svc] = now]
    /\ UNCHANGED <<now, ui>>

\* browserLikeFetch 141, 116: the backoff sleep is over
BackoffWake(p, lat) ==
    /\ proc[p].pc = "backoff" /\ Due(p)
    /\ proc' = [proc EXCEPT ![p] = attemptLoop(proc[p], proc[p].attempt + 1, lat)]
    /\ UNCHANGED <<now, lastRequestTime, ui>>

\* a feed strategy that fails on a feed without the feed/entry shape
FeedArrives_ShapelessFails(p, body) ==
    /\ proc[p].pc = "fetching" /\ Due(p) /\ proc[p].strategy = "feed"
    /\ LET r == [received(proc[p], 200) EXCEPT !.feedBody = body]
       IN  proc' = [proc EXCEPT ![p] =
               CASE body.kind = "unreadable" -> rssFailed(r, BodyError)
                 [] body.kind \in {"unparseable", "no_shape"} ->
                        rssFailed(r, RssParsingError(Error("xml", 0, "", "")))
                 [] OTHER -> getUserCommentsReturns(r, feedComments(entriesOf(body), r.limit, now))]
    /\ UNCHANGED <<now, lastRequestTime, ui>>

\* browserLikeFetch 132, fetchFromRSS 161-274: a 2xx answer to the feed request
FeedArrives(p, body) ==
    /\ proc[p].pc = "fetching" /\ Due(p) /\ proc[p].strategy = "feed"
    /\ LET r == [received(proc[p], 200) EXCEPT !.feedBody = body]
       IN  proc' = [proc EXCEPT ![p] =
               CASE body.kind = "unreadable" -> rssFailed(r, BodyError)
                 [] body.kind = "unparseable" -> rssFailed(r, RssParsingError(Error("xml", 0, "", "")))
                 [] body.kind = "no_shape" -> getUserCommentsReturns(r, <<>>)
                 [] OTHER -> getUserCommentsReturns(r, feedComments(entriesOf(body), r.limit, now))]
    /\ UNCHANGED <<now, lastRequestTime, ui>>

\* a fallback that asks for the feed once more
CooldownWake_FeedAgain(p, lat) ==
    /\ proc[p].pc = "cooldown" /\ Due(p)
    /\ browserLikeFetch(p, proc[p], "feed", rssUrl(proc[p].username), lat)
    /\ UNCHANGED <<now, ui>>

\* tryMultipleApproaches 372-381: the cooldown is over
CooldownWake(p, lat) ==
    /\ proc[p].pc = "cooldown" /\ Due(p)
    /\ browserLikeFetch(p, proc[p], "json", jsonUrl(proc[p].username, proc[p].limit), lat)
    /\ UNCHANGED <<now, ui>>

\* browserLikeFetch 132, tryMultipleApproaches 382-402: a 2xx answer to the JSON request
JsonArrives(p, body) ==
    /\ proc[p].pc = "fetching" /\ Due(p) /\ proc[p].strategy = "json"
    /\ LET r == [received(proc[p], 200) EXCEPT !.jsonBody = body]
       IN  proc' = [proc EXCEPT ![p] =
               CASE body.kind = "unreadable" -> jsonFailed(r, BodyError)
                 [] body.kind = "no_shape" -> getUserCommentsReturns(r, <<>>)
                 [] OTHER -> getUserCommentsReturns(r, jsonComments(body.children, now))]
    /\ UNCHANGED <<now, lastRequestTime, ui>>

\* reddit-comments.ts 28-30, 36-49: the 15 s timer fires and rejects timeoutPromise
TimerFires(p) ==
    /\ proc[p].timerArmed /\ proc[p].timerAt = now
    /\ LET r == [proc[p] EXCEPT !.timerArmed = FALSE]
       IN  proc' = [proc EXCEPT ![p] =
               IF r.awaiting THEN raceSettles(r, "rejected", <<>>, TimedOut) ELSE r]
    /\ UNCHANGED <<now, lastRequestTime, ui>>

\* time passes up to the next timer expiry or fetch settlement
EventTimes ==
    {proc[p].wake : p \in {q \in Procs : Waiting(proc[q])}}
    \cup {proc[p].timerAt : p \in {q \in Procs : proc[q].timerArmed}}

Advance ==
    /\ EventTimes # {}
    /\ \A t \in EventTimes : t > now
    /\ now' = Min(EventTimes)
    /\ UNCHANGED <<lastRequestTime, proc, ui>>

\* onChange of the input: setUsername(e.target.value)
SetUsername(username) ==
    /\ ui' = [ui EXCEPT !.username = username]
    /\ UNCHANGED <<now, lastRequestTime, proc>>

\* the form is submitted (the button is disabled while isLoading): analyzeUser
\* 35-47 and fetchUserComments 100-108, up to the await of fetch
AnalyzeUser ==
    /\ ~ui.isLoading
    /\ ui' = IF Blank(ui.username) THEN ui
             ELSE [ui EXCEPT !.isLoading = TRUE, !.error = "", !.comments = <<>>,
                             !.commentError = "", !.showingMockData = FALSE,
                             !.isLoadingComments = TRUE,
                             !.pc = "fetching", !.submitted = ui.username]
    /\ UNCHANGED <<now, lastRequestTime, proc>>

\* the fetch of fetchRedditComments settles
ApiAnswer(answer) ==
    /\ ui.pc = "fetching"
    /\ ui' = fetchUserCommentsResumes(ui, answer)
    /\ UNCHANGED <<now, lastRequestTime, proc>>

\* analyzeUser 49-84: the delay is over, the result is set, finally clears isLoading
AnalysisDone ==
    /\ ui.pc = "analysing"
    /\ ui' = [ui EXCEPT !.pc = "idle", !.result = TRUE, !.isLoading = FALSE]
    /\ UNCHANGED <<now, lastRequestTime, proc>>

NextClient ==
    \/ \E u \in TypedUsernames : SetUsername(u)
    \/ AnalyzeUser
    \/ \E a \in ApiAnswers : ApiAnswer(a)
    \/ AnalysisDone

SpecClient == Init /\ [][NextClient]_vars

\* one call: a handler request or a direct getUserComments call
Next ==
    \/ \E p \in Single, u \in Usernames, l \in Limits, lat \in Latencies : GetUserComments(p, u, l, lat)
    \/ \E p \in Single, m \in Methods, u \in QueryUsernames, lat \in Latencies : Handler(p, m, u, lat)
    \/ \E p \in Single, lat \in Latencies : ThrottleWake(p, lat)
    \/ \E p \in Single, st \in (Statuses \cup {NetworkError}) : FetchFails(p, st)
    \/ \E p \in Single, lat \in Latencies : BackoffWake(p, lat)
    \/ \E p \in Single, body \in FeedBodies : FeedArrives(p, body)
    \/ \E p \in Single, lat \in Latencies : CooldownWake(p, lat)
    \/ \E p \in Single, body \in JsonBodies : JsonArrives(p, body)
    \/ \E p \in Single : TimerFires(p)
    \/ Advance

Spec == Init /\ [][Next]_vars

\* two calls in the same process, interleaving at every await; the calls' inputs
\* are drawn from smaller sets than in Spec
ConcLatencies == {500}
ConcFailures == {500}
ConcFeedBodies == { b \in FeedBodies : b.kind \in {"unparseable", "no_shape"} }
ConcJsonBodies == { b \in JsonBodies : b.kind \in {"unreadable", "no_shape"} }
ConcQueryUsernames == { u \in QueryUsernames : u.type = "string" /\ u.val # "" }

NextConcurrent ==
    \/ \E p \in Procs, u \in Usernames, lat \in ConcLatencies : GetUserComments(p, u, DefaultLimit, lat)
    \/ \E p \in Procs, u \in ConcQueryUsernames, lat \in ConcLatencies : Handler(p, "GET", u, lat)
    \/ \E p \in Procs, lat \in ConcLatencies : ThrottleWake(p, lat)
    \/ \E p \in Procs, st \in ConcFailures : FetchFails(p, st)
    \/ \E p \in Procs, lat \in ConcLatencies : BackoffWake(p, lat)
    \/ \E p \in Procs, body \in ConcFeedBodies : FeedArrives(p, body)
    \/ \E p \in Procs, lat \in ConcLatencies : CooldownWake(p, lat)
    \/ \E p \in Procs, body \in ConcJsonBodies : JsonArrives(p, body)
    \/ \E p \in Procs : TimerFires(p)
    \/ Advance

SpecConcurrent == Init /\ [][NextConcurrent]_vars

\* one getUserComments call whose requests are answered at once with 2xx; the
\* payloads are drawn from sets that vary every field the normalizers read
RSlash(name) == Str(<<"r", "/", name>>)
Html == <<SC_OFF, "<", "p", ">", "a", "&", "amp", ";", "b", "<", "/", "p", ">", SC_ON>>
Title == <<"/", "u", "/", "alice", " ", "o", "n", " ", "A", " ", "post">>
WellFormed ==
    [Entry(Category(RSlash("news")), Str(<<"t1_abc">>), Str(<<"p", "/", "x", "/", "c">>),
           Str(Date1), ElementContent("html", Str(Html)))
        EXCEPT !.title = Str(Title)]
NormTitles == { Undefined, Str(<<"A", " ", "post">>) }
NormCategories ==
    { NoCategory, TextCategory, Category(Str(<<"news">>)),
      Categories(<<RSlash("a"), RSlash("b")>>), Categories(<<Str(<<"x">>), RSlash("b")>>) }
NormIds == { Undefined, Str(<<"tag", ":", "t1_abc">>) }
NormHrefs == { Undefined } \cup { Str(l) : l \in Permalinks }
NormUpdated == { Undefined, Str(Date2), Str(<<"garbage">>) }
NormContents == { NoContent, NumberContent, TextContent(Hello), ElementContent("html", Num) }
NormEntries ==
    { WellFormed }
    \cup { [WellFormed EXCEPT !.category = v] : v \in NormCategories }
    \cup { [WellFormed EXCEPT !.id = v] : v \in NormIds }
    \cup { [WellFormed EXCEPT !.href = v] : v \in NormHrefs }
    \cup { [WellFormed EXCEPT !.updated = v] : v \in NormUpdated }
    \cup { [WellFormed EXCEPT !.content = v] : v \in NormContents }
    \cup { [WellFormed EXCEPT !.title = v] : v \in NormTitles }
\* content strings of up to MaxParts parts: text, whitespace, tags and entities
Parts ==
    { <<"a">>, <<" ">>, <<"\n">>, <<"<", "b", ">">>, <<"<", "b", "r", " ", "/", ">">>,
      Entity("lt"), Entity("gt"), Entity("amp"), Entity("nbsp") }
RECURSIVE concat(_)
concat(ss) == IF ss = <<>> THEN <<>> ELSE Head(ss) \o concat(Tail(ss))
Htmls == { concat(ps) : ps \in UNION { [1..n -> Parts] : n \in 1..MaxParts } }
NormFeedBodies ==
    { [NoFeedBody EXCEPT !.kind = k] : k \in {"unparseable", "no_shape"} }
    \cup FeedsOver(NormEntries)
    \cup { FeedOfOne([WellFormed EXCEPT !.content = TextContent(h)]) : h \in Htmls }

WellFormedChild ==
    Child(TRUE, Str(<<"abc">>), Str(Hello), Str(<<"news">>), Str(T1 \o <<"b">>),
          Str(T3 \o <<"a">>), Time(1000))
NormChildren ==
    { NoData, WellFormedChild }
    \cup { [WellFormedChild EXCEPT !.id = Undefined], [WellFormedChild EXCEPT !.body = Undefined],
           [WellFormedChild EXCEPT !.subreddit = Undefined],
           [WellFormedChild EXCEPT !.link_id = Undefined] }
    \cup { [WellFormedChild EXCEPT !.parent_id = v] : v \in ParentIds }
    \cup { [WellFormedChild EXCEPT !.created_utc = v] : v \in {Raw(Undefined), Raw(Str(<<"soon">>))} }
NormJsonBodies ==
    { [NoJsonBody EXCEPT !.kind = "no_shape"] } \cup ListingsOver(NormChildren)
NormLimits == {1, 2, DefaultLimit}

NextNormalizer ==
    \/ \E p \in Single, l \in NormLimits : GetUserComments(p, "alice", l, 500)
    \/ \E p \in Single, body \in NormFeedBodies : FeedArrives(p, body)
    \/ \E p \in Single : CooldownWake(p, 500)
    \/ \E p \in Single : ThrottleWake(p, 500)
    \/ \E p \in Single, body \in NormJsonBodies : JsonArrives(p, body)
    \/ Advance

SpecNormalizer == Init /\ [][NextNormalizer]_vars

TypeOK ==
    /\ now \in Nat
    /\ \A p \in Procs : proc[p].pc \in {"idle", "throttle", "fetching", "backoff", "cooldown", "done"}

----------------------------------------------------------------------------
(* Properties *)

Last(s) == s[Len(s)]
Failed(r) == r.cur.done /\ r.cur.status # 200
HasTwo(r) == r.prev.strategy # "none" /\ r.cur.strategy # "none"
\* the attempts of one browserLikeFetch call all failed and the call threw
Exhausted(r) ==
    /\ Len(r.failed) >= 1
    /\ Last(r.failed).error.kind \in {"http", "network", "failed_after"}
    /\ r.cur.call = Len(r.failed)

\* C1: when every attempt of browserLikeFetch fails, attempts 0..retries-1 are
\* made and no other; attempt a+1 starts 2^a * 1000 ms after failed attempt a
\* ended; the failure of attempt retries-1 is followed by no wait: the call
\* throws at the moment that attempt ends.
C1_RetryBackoff ==
    \A p \in Procs :
        LET r == proc[p] IN
        /\ r.cur.attempt < DefaultRetries
        /\ r.pc = "backoff" =>
               /\ Failed(r) /\ r.cur.attempt < DefaultRetries - 1
               /\ r.wake = r.cur.end + Pow2(r.cur.attempt) * 1000
        /\ r.cur.attempt > 0 =>
               /\ r.prev.call = r.cur.call /\ r.prev.attempt = r.cur.attempt - 1
               /\ r.prev.done /\ r.prev.status # 200
               /\ r.cur.start = r.prev.end + Pow2(r.prev.attempt) * 1000
        /\ (r.cur.attempt = 0 /\ HasTwo(r)) => r.prev.call # r.cur.call
        /\ (Failed(r) /\ r.cur.attempt = DefaultRetries - 1) =>
               /\ Len(r.failed) >= r.cur.call
               /\ r.failed[r.cur.call].at = r.cur.end
               /\ r.failed[r.cur.call].error = AttemptError(r.cur.status)
        /\ Exhausted(r) => r.cur.attempt = DefaultRetries - 1 /\ Failed(r)

\* a call whose three attempts failed, 403 included, with waits of 1000 and 2000 ms
C1_Witness ==
    \E p \in Procs :
        LET r == proc[p] IN
        /\ Exhausted(r) /\ r.cur.status = 403 /\ r.cur.attempt = 2
        /\ r.prev.attempt = 1 /\ r.cur.start - r.prev.end = 2000
        /\ r.pc = "cooldown"

\* C2: when one call makes two browserLikeFetch invocations one after the
\* other (feed, then JSON), every request of the second starts at least
\* requestDelay after the start of every request of the first.  Request
\* starts only grow, so the closest pair is the last request of the first
\* invocation and the first request of the second.
C2_BackToBackStarts ==
    \A p \in Procs :
        LET r == proc[p] IN
        (HasTwo(r) /\ r.prev.call # r.cur.call) => r.cur.start - r.prev.start >= requestDelay

Apart(a, b) == a - b >= requestDelay \/ b - a >= requestDelay

\* C4: two getUserComments calls running concurrently on one service instance
\* never start requests less than requestDelay apart.  Stated for the requests
\* the throttle gates directly, the first attempt of each browserLikeFetch
\* invocation, which go out right after the last-request time is written.
C4_AtomicThrottle ==
    \A p, q \in Procs :
        (/\ p # q /\ proc[p].svc = proc[q].svc
         /\ proc[p].cur.strategy # "none" /\ proc[q].cur.strategy # "none"
         /\ proc[p].cur.attempt = 0 /\ proc[q].cur.attempt = 0)
        => Apart(proc[p].cur.start, proc[q].cur.start)

\* C5: upstream requests caused by two different inbound API requests are at
\* least requestDelay apart.
C5_ProcessWidePacing ==
    \A p, q \in Procs :
        (/\ p # q /\ proc[p].kind = "handler" /\ proc[q].kind = "handler"
         /\ proc[p].cur.strategy # "none" /\ proc[q].cur.strategy # "none")
        => Apart(proc[p].cur.start, proc[q].cur.start)

Strategies(r) == [i \in 1..Len(r.entered) |-> r.entered[i].strategy]
Settled(r) == r.lookup \in {"fulfilled", "rejected"}

\* C6: a lookup enters the feed strategy, then at most the JSON strategy, each
\* once and nothing after it; a JSON request goes out only after the feed
\* strategy has failed; a request starts only when the one before it has
\* ended; once the JSON strategy has failed the lookup is over.
C6_TwoStrategiesInSequence ==
    \A p \in Procs :
        LET r == proc[p] IN
        /\ Strategies(r) \in {<<>>, <<"feed">>, <<"feed", "json">>}
        /\ Len(r.failed) <= Len(r.entered)
        /\ \A i \in 1..Len(r.failed) : r.failed[i].strategy = r.entered[i].strategy
        /\ Len(r.entered) = 2 =>
               /\ Len(r.failed) >= 1
               /\ r.failed[1].at <= r.entered[2].at
        /\ r.cur.strategy = "json" =>
               /\ Len(r.failed) >= 1 /\ r.failed[1].strategy = "feed"
               /\ r.failed[1].at <= r.cur.start
        /\ r.prev.strategy = "json" => r.cur.strategy = "json"
        /\ HasTwo(r) => r.prev.done /\ r.prev.end <= r.cur.start
        /\ Len(r.failed) = 2 => r.pc = "done" /\ r.lookup = "rejected"
        /\ r.requests <= 2 * DefaultRetries

\* the JSON request in flight after a failed feed strategy
C6_Witness ==
    \E p \in Procs :
        LET r == proc[p] IN
        /\ Strategies(r) = <<"feed", "json">> /\ r.cur.strategy = "json"
        /\ r.prev.strategy = "feed" /\ r.pc = "fetching"

\* C7: whatever made the feed strategy fail, the call waits CooldownMs and then
\* enters the JSON strategy with the call's username and limit; the lookup is
\* not rejected before a JSON request has gone out.
C7_FallbackAfterCooldown ==
    \A p \in Procs :
        LET r == proc[p] IN
        /\ Len(r.failed) >= 1 =>
               \/ /\ r.pc = "cooldown" /\ r.wake = r.failed[1].at + CooldownMs
                  /\ Len(r.entered) = 1
               \/ /\ Len(r.entered) = 2 /\ r.entered[2].strategy = "json"
                  /\ r.entered[2].at = r.failed[1].at + CooldownMs
                  /\ r.url = jsonUrl(r.username, r.limit)
        /\ r.cur.strategy = "feed" => r.cur.url = rssUrl(r.username)
        /\ r.cur.strategy = "json" =>
               /\ r.cur.url = jsonUrl(r.username, r.limit)
               /\ r.cur.start >= r.failed[1].at + CooldownMs
        /\ r.lookup = "rejected" => r.cur.strategy = "json" /\ r.cur.done

\* a JSON request for the caller's username and limit, after a feed that did not parse
C7_Witness ==
    \E p \in Procs :
        LET r == proc[p] IN
        /\ Len(r.failed) = 1 /\ r.failed[1].error.kind = "rss_parsing"
        /\ r.cur.strategy = "json" /\ r.cur.url = jsonUrl("bob", 1)
        /\ r.cur.start = r.failed[1].at + CooldownMs

\* C8: getUserComments is rejected exactly when the feed strategy and then the
\* JSON strategy failed; the rejection names the username and ends the call.
C8_FailsIffBothFail ==
    \A p \in Procs :
        LET r == proc[p] IN
        /\ r.lookup = "rejected" <=> Len(r.failed) = 2
        /\ r.lookup = "rejected" =>
               /\ r.error.kind = "could_not_fetch" /\ r.error.user = r.username
               /\ r.pc = "done"

\* C9: a browserLikeFetch call whose retries are used up throws the
\* retries-exhausted error, not the error of its last attempt.
C9_ExhaustedError ==
    \A p \in Procs :
        LET r == proc[p] IN
        \A i \in 1..Len(r.failed) :
            r.failed[i].error.kind \notin {"body", "rss_parsing"} =>
                r.failed[i].error = FailedAfter(DefaultRetries)

TimedOutResponse(resp) ==
    /\ resp.status = 500 /\ resp.message = TimedOut
    /\ resp.comments = Comments(<<>>)

\* C10: a request that passed validation is answered once and no later than
\* TimeoutMs after the lookup started; when the lookup has not settled by
\* then the answer is 500 with the timed-out message and an empty comments
\* array; a lookup that settles later adds no response.
C10_DeadlineSingleResponse ==
    \A p \in Procs :
        LET r == proc[p] IN
        /\ Len(r.responses) <= 1
        /\ r.awaiting => r.timerArmed /\ now <= r.timerAt /\ r.responses = <<>>
        /\ (r.kind = "handler" /\ ~r.awaiting) => Len(r.responses) = 1
        /\ (r.lookup # "none" /\ r.kind = "handler") =>
               /\ r.timerAt = r.entered[1].at + TimeoutMs
               /\ r.responses # <<>> => r.responses[1].at <= r.timerAt
               /\ (r.responses # <<>> /\ (r.lookup = "pending" \/ r.settledAt > r.timerAt)) =>
                      TimedOutResponse(r.responses[1]) /\ r.responses[1].at = r.timerAt
               /\ (r.responses # <<>> /\ Settled(r) /\ r.settledAt < r.timerAt) =>
                      /\ r.responses[1].at = r.settledAt
                      /\ r.responses[1].status = (IF r.lookup = "fulfilled" THEN 200 ELSE 500)

\* a lookup that settled after the handler had answered with the timeout
C10_Witness ==
    \E p \in Procs :
        LET r == proc[p] IN
        /\ r.kind = "handler" /\ Settled(r) /\ r.settledAt > r.timerAt
        /\ Len(r.responses) = 1 /\ TimedOutResponse(r.responses[1])

\* C11: once the handler's timeout has fired the lookup is abandoned: no
\* outbound request starts after the timeout and the last-request time of the
\* lookup's service is not written after it.
C11_AbandonedAfterTimeout ==
    \A p \in Procs :
        LET r == proc[p] IN
        (r.kind = "handler" /\ r.responses # <<>> /\ TimedOutResponse(r.responses[1])) =>
            /\ r.cur.start <= r.timerAt
            /\ lastRequestTime[r.svc] <= r.timerAt

\* C12: the handler answers 405 to every method but GET, whatever the
\* username; 400 to a GET whose username is missing, empty or given more than
\* once; 200 with the comments when the lookup succeeds; 500 with error,
\* message and an empty comments array when the lookup fails or times out.
C12_StatusOrder ==
    \A p \in Procs :
        LET r == proc[p] IN
        (r.kind = "handler" /\ r.responses # <<>>) =>
            LET resp == r.responses[1]
                valid == r.query.type = "string" /\ r.query.val # ""
            IN  /\ r.method # "GET" =>
                       resp.status = 405 /\ r.lookup = "none" /\ r.requests = 0
                /\ (r.method = "GET" /\ ~valid) =>
                       resp.status = 400 /\ r.lookup = "none" /\ r.requests = 0
                /\ (r.method = "GET" /\ valid) =>
                       /\ resp.status \in {200, 500}
                       /\ r.username = r.query.val
                       /\ resp.status = 200 =>
                              /\ r.lookup = "fulfilled" /\ r.settledAt = resp.at
                              /\ resp.comments = Comments(r.comments)
                       /\ resp.status = 500 =>
                              /\ resp.error = "Failed to fetch Reddit data"
                              /\ resp.comments = Comments(<<>>)
                              /\ \/ resp.message = TimedOut /\ resp.at = r.timerAt
                                 \/ /\ r.lookup = "rejected" /\ r.settledAt = resp.at
                                    /\ resp.message = r.error
                       /\ (r.lookup = "fulfilled" /\ r.settledAt < r.timerAt) => resp.status = 200
                       /\ (r.lookup = "rejected" /\ r.settledAt < r.timerAt) => resp.status = 500

\* a POST without a username answered 405, not 400
C12_Witness ==
    \E p \in Procs :
        LET r == proc[p] IN
        /\ r.kind = "handler" /\ r.method = "POST" /\ r.query.type = "undefined"
        /\ Len(r.responses) = 1 /\ r.responses[1].status = 405

\* the lookup returned a list, produced by the feed strategy or by the JSON strategy
FromFeed(r) == r.lookup = "fulfilled" /\ Len(r.entered) = 1
FromJson(r) == r.lookup = "fulfilled" /\ Len(r.entered) = 2
\* cs holds the records of some of the upstream items, in upstream order
InOrder(cs, items, record(_)) ==
    \E f \in [1..Len(cs) -> 1..Len(items)] :
        /\ \A i, j \in 1..Len(cs) : i < j => f[i] < f[j]
        /\ \A i \in 1..Len(cs) : cs[i] = record(items[f[i]])
\* an entry whose content element carries a number where its text should be
Malformed(e) == e.content.kind = "object" /\ e.content.text.type = "number"

\* C13: the list a lookup returns, from the feed or from the JSON listing, has
\* at most limit records, and they are records of upstream items in upstream
\* order.
C13_AtMostLimitInOrder ==
    \A p \in Procs :
        LET r == proc[p] IN
        /\ r.lookup = "fulfilled" => Len(r.comments) <= r.limit
        /\ FromFeed(r) =>
               InOrder(r.comments, r.feedBody.entries,
                       LAMBDA e : enhance(feedComment(e, r.settledAt)))
        /\ FromJson(r) =>
               InOrder(r.comments, r.jsonBody.children,
                       LAMBDA c : enhance(jsonComment(c, r.settledAt)))

\* C14: from a feed with N well-formed entries, alone or among malformed
\* ones, as a list or as a single entry, and a limit L, the feed strategy
\* returns min(N, L) records, in upstream order.
C14_MinOfWellFormedAndLimit ==
    \A p \in Procs :
        LET r == proc[p]
            es == r.feedBody.entries
            N == Cardinality({i \in 1..Len(es) : ~Malformed(es[i])})
        IN  (FromFeed(r) /\ r.feedBody.kind = "feed") =>
                /\ Len(r.comments) = Min({N, r.limit})
                /\ InOrder(r.comments, es, LAMBDA e : enhance(feedComment(e, r.settledAt)))

\* C15: a feed with an entry whose extraction throws still succeeds, without
\* a JSON request: the lookup returns, in order, the records of the other
\* entries among the first limit entries of the feed.
C15_ThrowingEntryDropped ==
    \A p \in Procs :
        LET r == proc[p]
            es == r.feedBody.entries
            good == {i \in 1..Min({r.limit, Len(es)}) : ~Malformed(es[i])}
            nth(k) == CHOOSE i \in good : Cardinality({j \in good : j <= i}) = k
        IN  r.feedBody.kind = "feed" =>
                /\ FromFeed(r) /\ r.failed = <<>> /\ r.cur.strategy = "feed"
                /\ r.settledAt = r.cur.end
                /\ Len(r.comments) = Cardinality(good)
                /\ \A k \in 1..Len(r.comments) :
                       r.comments[k] = enhance(feedComment(es[nth(k)], r.settledAt))

\* a malformed entry ahead of a well-formed one, whose record is returned
C15_Witness ==
    \E p \in Procs :
        LET r == proc[p] IN
        /\ Len(r.feedBody.entries) >= 2 /\ Malformed(r.feedBody.entries[1])
        /\ FromFeed(r) /\ Len(r.comments) = Len(r.feedBody.entries) - 1

\* C16: a feed that parses but has no feed/entry shape makes the lookup
\* return [] without a JSON request; a JSON payload without a data.children
\* array makes the lookup return [] as well.
C16_ShapelessIsEmpty ==
    \A p \in Procs :
        LET r == proc[p] IN
        /\ r.feedBody.kind = "no_shape" =>
               /\ FromFeed(r) /\ r.comments = <<>> /\ r.failed = <<>>
               /\ r.cur.strategy = "feed" /\ r.jsonBody = NoJsonBody
        /\ r.jsonBody.kind = "no_shape" =>
               FromJson(r) /\ r.comments = <<>> /\ r.error = NoError

\* a lookup that returned [] from a shapeless JSON payload, after a failed feed
C16_Witness ==
    \E p \in Procs :
        LET r == proc[p] IN
        r.jsonBody.kind = "no_shape" /\ r.lookup = "fulfilled" /\ Len(r.failed) = 1

NonNull(v) == v.type \notin {"undefined", "null"}

\* C17: every record a lookup returns has a non-null id, body, subreddit,
\* parent_id and link_id, and a created_utc that is a number, not NaN.
C17_RecordFieldsPresent ==
    \A p \in Procs :
        LET r == proc[p] IN
        r.lookup = "fulfilled" =>
            \A i \in 1..Len(r.comments) :
                LET c == r.comments[i] IN
                /\ NonNull(c.id) /\ NonNull(c.body) /\ NonNull(c.subreddit)
                /\ NonNull(c.parent_id) /\ NonNull(c.link_id)
                /\ c.created_utc.type = "number"

\* the feed returned one record per entry: record i is the record of entry i
Aligned(r) ==
    /\ FromFeed(r) /\ r.feedBody.kind = "feed"
    /\ Len(r.comments) = Len(r.feedBody.entries)
IsDate(chars) == chars \in {Date1, Date2}

\* C18: the record of a feed entry whose updated field is a string that is no
\* date carries the time of the lookup as created_utc, as does the record of
\* an entry without the field.
C18_UnparseableDateIsNow ==
    \A p \in Procs :
        LET r == proc[p] IN
        Aligned(r) =>
            \A i \in 1..Len(r.comments) :
                LET updated == r.feedBody.entries[i].updated IN
                (updated.type = "undefined" \/ (updated.type = "string" /\ ~IsDate(updated.chars)))
                    => r.comments[i].created_utc = Time(r.settledAt)

IsRSlash(label) == label.type = "string" /\ Len(label.chars) > 2 /\ SubSeq(label.chars, 1, 2) = <<"r", "/">>
NameOf(label) == SubSeq(label.chars, 3, Len(label.chars))

\* C19: the subreddit of a feed record is the name in the r/<name> label of
\* the entry's single category, or of the first category of its list whose
\* label starts with r/; it is "unknown" for a list only when no label of the
\* list starts with r/.
C19_SubredditFromCategories ==
    \A p \in Procs :
        LET r == proc[p] IN
        Aligned(r) =>
            \A i \in 1..Len(r.comments) :
                LET category == r.feedBody.entries[i].category
                    labels == category.labels
                    matching == {k \in 1..Len(labels) : IsRSlash(labels[k])}
                    subreddit == r.comments[i].subreddit
                IN  /\ (category.type \in {"object", "array"} /\ matching # {}) =>
                           subreddit = Str(NameOf(labels[Min(matching)]))
                    /\ (category.type = "array" /\ matching = {}) => subreddit = Str(Unknown)

\* the path segments of a permalink, a trailing slash ending the last one
segments(chars) ==
    LET parts == split(chars, "/")
    IN  IF parts[Len(parts)] = <<>> THEN SubSeq(parts, 1, Len(parts) - 1) ELSE parts

\* C20: for a permalink of three or more segments, with or without a
\* trailing slash, parent_id is "t1_" and the final segment and link_id is
\* "t3_" and the segment three from the end; for an absent permalink, or one
\* of a single segment, both are the empty string.
C20_IdsFromPermalink ==
    \A p \in Procs :
        LET r == proc[p] IN
        Aligned(r) =>
            \A i \in 1..Len(r.comments) :
                LET href == r.feedBody.entries[i].href
                    segs == IF href.type = "string" THEN segments(href.chars) ELSE <<>>
                    c == r.comments[i]
                IN  /\ Len(segs) >= 3 =>
                           /\ c.parent_id = Str(T1 \o segs[Len(segs)])
                           /\ c.link_id = Str(T3 \o segs[Len(segs) - 2])
                    /\ Len(segs) <= 1 => c.parent_id = Str(<<>>) /\ c.link_id = Str(<<>>)

\* the lookup returned one record per upstream item: record i is the record of item i
Paired(r) ==
    \/ Aligned(r)
    \/ FromJson(r) /\ Len(r.comments) = Len(r.jsonBody.children)
\* the record of upstream item i as the strategy built it, before getUserComments' pass
Built(r, i) ==
    IF FromFeed(r) THEN feedComment(r.feedBody.entries[i], r.settledAt)
    ELSE jsonComment(r.jsonBody.children[i], r.settledAt)
HasPrefix(v, pre) == v.type = "string" /\ Len(v.chars) >= 3 /\ SubSeq(v.chars, 1, 3) = pre
Suffix(v) == SubSeq(v.chars, 4, Len(v.chars))
Empty(v) == v.type \in {"undefined", "null"} \/ v = Str(<<>>)

\* C21: in every returned record whose parent_id starts with t3_, link_title
\* is "Post: " and the rest of parent_id when the strategy gave no or an empty
\* link_title, and the strategy's link_title otherwise; in every record whose
\* parent_id starts with t1_, parent_body is "Comment: " and the rest of
\* parent_id; nothing else differs from the record the strategy built, and a
\* record with any other parent_id is that record unchanged.
C21_ParentHints ==
    \A p \in Procs :
        LET r == proc[p] IN
        Paired(r) =>
            \A i \in 1..Len(r.comments) :
                LET c == r.comments[i]
                    b == Built(r, i)
                IN  /\ HasPrefix(b.parent_id, T3) =>
                           /\ Empty(b.link_title) =>
                                  c = [b EXCEPT !.link_title = Str(<<"Post: ">> \o Suffix(b.parent_id))]
                           /\ ~Empty(b.link_title) => c = b
                    /\ HasPrefix(b.parent_id, T1) =>
                           c = [b EXCEPT !.parent_body = Str(<<"Comment: ">> \o Suffix(b.parent_id))]
                    /\ ~(HasPrefix(b.parent_id, T3) \/ HasPrefix(b.parent_id, T1)) => c = b

\* a JSON comment under post t3_a, given its title, and one under comment t1_b
C21_Witness ==
    \E p \in Procs :
        LET r == proc[p] IN
        /\ FromJson(r) /\ Len(r.comments) = 2
        /\ r.comments[1].parent_id = Str(T3 \o <<"a">>)
        /\ r.comments[1].link_title = Str(<<"Post: ", "a">>)
        /\ r.comments[2].parent_id = Str(T1 \o <<"b">>)
        /\ r.comments[2].parent_body = Str(<<"Comment: ", "b">>)

\* fetchUserComments has completed and analyzeUser has not been called since
Completed(u) == u.pc # "fetching" /\ u.answer.kind # "none"
ApiReturnedSome(u) == u.answer.ok /\ u.answer.comments.present /\ u.answer.comments.list # <<>>

\* C22: once fetchUserComments has completed, the displayed list is not empty
\* and isLoadingComments is false; the list is the API's when the API
\* returned at least one comment, and otherwise (the fetch rejected, an error
\* status, or a 200 answer without comments) the five placeholders for the
\* submitted username, with showingMockData true.
C22_NeverEmptyAfterFetch ==
    Completed(ui) =>
        /\ ui.comments # <<>> /\ ~ui.isLoadingComments /\ ~Blank(ui.submitted)
        /\ ApiReturnedSome(ui) => ui.comments = ui.answer.comments.list
        /\ ~ApiReturnedSome(ui) =>
               /\ ui.showingMockData /\ Len(ui.comments) = 5
               /\ \A k \in 1..5 :
                      /\ ui.comments[k].id = Str(<<"mock_", Digit(k - 1)>>)
                      /\ ui.comments[k].body.chars[2] = ui.submitted

\* the placeholders shown after a 200 answer with zero comments
C22_Witness ==
    /\ Completed(ui) /\ ui.answer = Answer("response", 200, Comments(<<>>))
    /\ Len(ui.comments) = 5 /\ ui.showingMockData

\* the text cleanHtmlContent returned for the single entry of a feed
Cleaned(r) ==
    /\ Aligned(r) /\ Len(r.comments) = 1
    /\ r.feedBody.entries[1].content.kind = "string"
    /\ r.feedBody.entries[1].content.text.chars # <<>>
Has(s, c) == \E i \in 1..Len(s) : s[i] = c

\* C23 as stated: every text that cleanHtmlContent returns is returned
\* unchanged when cleanHtmlContent is applied to it.
C23_CleanIdempotent ==
    \A p \in Procs :
        LET r == proc[p] IN
        Cleaned(r) => cleanHtmlContent(r.comments[1].body.chars) = r.comments[1].body.chars

\* C23 amended: every text that cleanHtmlContent returns and that holds no "<"
\* and no "&" is returned unchanged when cleanHtmlContent is applied to it.
C23_CleanIdempotentOnPlain ==
    \A p \in Procs :
        LET r == proc[p]
            text == r.comments[1].body.chars
        IN  (Cleaned(r) /\ text # <<>> /\ ~Has(text, "<") /\ ~Has(text, "&")) =>
                cleanHtmlContent(text) = text

\* the text "a >" cleaned from a tag, a non-breaking space and entities
C23_Witness ==
    \E p \in Procs :
        LET r == proc[p] IN
        /\ Cleaned(r)
        /\ r.feedBody.entries[1].content.text.chars = <<"a">> \o Entity("nbsp") \o Entity("gt")
        /\ r.comments[1].body.chars = <<"a", " ", ">">>

\* C24: every response of the handler carries the cross-origin headers and a
\* Cache-Control header whose stale-while-revalidate window is longer than its
\* s-maxage window.
C24_CacheWindows ==
    \A p \in Procs :
        LET r == proc[p] IN
        \A i \in 1..Len(r.responses) :
            LET headers == r.responses[i].headers IN
            /\ headers.cors
            /\ headers.sMaxage > 0
            /\ headers.staleWhileRevalidate > headers.sMaxage

Succeeded(req) == req.done /\ req.status = 200

\* C25: browserLikeFetch hands a response to its caller only when the
\* response has a 2xx status, and it is the response of the first attempt that
\* succeeded: no request of the same invocation follows a successful one, and
\* the invocation has made as many requests as the index of that attempt says,
\* at most DefaultRetries.
C25_FirstSuccessReturned ==
    \A p \in Procs :
        LET r == proc[p] IN
        /\ r.cur.attempt < DefaultRetries
        /\ (HasTwo(r) /\ r.prev.call = r.cur.call) => ~Succeeded(r.prev)
        /\ (r.cur.strategy = "feed" /\ r.feedBody.kind # "none") => Succeeded(r.cur)
        /\ r.jsonBody.kind # "none" => r.cur.strategy = "json" /\ Succeeded(r.cur)
        /\ (r.cur.strategy = "feed" /\ Succeeded(r.cur)) =>
               /\ r.feedBody.kind # "none" /\ r.pc \notin {"fetching", "backoff"}
               /\ r.requests = r.cur.attempt + 1
        /\ (r.cur.strategy = "json" /\ Succeeded(r.cur)) =>
               r.jsonBody.kind # "none" /\ r.pc = "done"
        /\ (r.cur.strategy = "json" /\ r.prev.strategy = "feed") =>
               (Succeeded(r.prev) <=> r.feedBody.kind # "none")
        /\ (r.cur.done /\ r.cur.status # 200 /\ r.cur.strategy = "feed") => r.feedBody.kind = "none"
        /\ (r.cur.done /\ r.cur.status # 200) => r.jsonBody.kind = "none"

\* a feed returned by the second attempt, after a 403 on the first
C25_Witness ==
    \E p \in Procs :
        LET r == proc[p] IN
        /\ r.cur.attempt = 1 /\ Succeeded(r.cur) /\ r.prev.status = 403
        /\ r.feedBody.kind = "feed" /\ r.requests = 2 /\ r.lookup = "fulfilled"

\* C26: one getUserComments call makes at most 2 * DefaultRetries outbound
\* requests: at most DefaultRetries to the feed URL, then at most
\* DefaultRetries to the JSON URL, no feed request after a JSON request.
C26_AtMostSixRequests ==
    \A p \in Procs :
        LET r == proc[p]
            ofCall == r.cur.attempt + 1      \* requests of the invocation in progress
        IN  /\ r.requests <= 6
            /\ r.cur.strategy = "none" <=> r.requests = 0
            /\ r.cur.strategy = "feed" =>
                   /\ r.requests = ofCall /\ ofCall <= 3
                   /\ r.cur.url = rssUrl(r.username)
                   /\ r.prev.strategy # "json"
            /\ r.cur.strategy = "json" =>
                   /\ ofCall <= 3
                   /\ r.requests - ofCall >= 1 /\ r.requests - ofCall <= 3
                   /\ r.cur.url = jsonUrl(r.username, r.limit)
            /\ HasTwo(r) => r.prev.start < r.cur.start

\* a call that made three feed requests and three JSON requests
C26_Witness ==
    \E p \in Procs :
        LET r == proc[p] IN
        r.requests = 6 /\ r.cur.strategy = "json" /\ r.cur.attempt = 2 /\ r.lookup = "rejected"

\* the calls on service instance i that send the first attempt of a
\* browserLikeFetch invocation in this step
FirstAttempts(i) ==
    { p \in Procs : /\ proc'[p].svc = i
                    /\ proc'[p].requests = proc[p].requests + 1
                    /\ proc'[p].cur.attempt = 0 }

\* C27: a step writes the last-request time of a service instance exactly
\* when it sends the first attempt of a browserLikeFetch invocation on it,
\* the throttle wait being over, and it writes the current time; every other
\* step (entering the throttle wait, a retry, a backoff or cooldown ending, a
\* response being normalized, a timer) leaves it unchanged; it never decreases.
C27_WrittenOncePerInvocation ==
    [][\A i \in Instances :
          /\ lastRequestTime'[i] >= lastRequestTime[i]
          /\ FirstAttempts(i) # {} => lastRequestTime'[i] = now /\ now' = now
          /\ FirstAttempts(i) = {} => lastRequestTime'[i] = lastRequestTime[i]]_vars

\* a retry in flight: the last-request time is still the start of attempt 0
C27_Witness ==
    \E p \in Procs :
        LET r == proc[p] IN
        /\ r.pc = "fetching" /\ r.cur.attempt = 1 /\ r.prev.attempt = 0
        /\ lastRequestTime[r.svc] = r.prev.start /\ r.cur.start > r.prev.start

Rejected(r) == r.kind = "handler" /\ r.responses # <<>> /\ r.responses[1].status \in {400, 405}

\* C28: a request answered 405 or 400 has started no timer, entered no
\* strategy, sent no upstream request and written no last-request time; a
\* handler with a timer or an upstream request is one whose request is a GET
\* with a single non-empty username.
C28_RejectedDoesNothing ==
    \A p \in Procs :
        LET r == proc[p] IN
        /\ Rejected(r) =>
               /\ ~r.timerArmed /\ r.timerAt = 0
               /\ r.calls = 0 /\ r.entered = <<>> /\ r.cur = NoRequest
               /\ lastRequestTime[r.svc] = 0
               /\ r.pc = "done" /\ Len(r.responses) = 1 /\ r.responses[1].at = now
        /\ (r.kind = "handler" /\ (r.timerArmed \/ r.timerAt # 0 \/ r.calls > 0)) =>
               r.method = "GET" /\ r.query.type = "string" /\ r.query.val # ""

\* a GET whose username was given twice, answered 400 with nothing started
C28_Witness ==
    \E p \in Procs :
        LET r == proc[p] IN
        /\ Rejected(r) /\ r.method = "GET" /\ r.query.type = "array"
        /\ r.responses[1].status = 400 /\ r.requests = 0 /\ ~r.timerArmed

====
